---- MODULE Spec2Model ----
(***************************************************************************)
(* A model of shoutbase.py: the ShoutbaseClient / ShoutbaseReport classes. *)
(*                                                                         *)
(* One client instance.  Its fields report_url and report_data are the     *)
(* program state; a public method call is a sequence of steps, one per     *)
(* outbound HTTP request, whose responses are chosen by the environment.   *)
(*                                                                         *)
(* Python's None is the empty sequence << >> and a value x that is set is  *)
(* the one-element sequence << x >>, so that None and the empty string     *)
(* (the empty body) stay different values.                                 *)
(***************************************************************************)
EXTENDS Integers, Sequences, FiniteSets, TLC

VARIABLES
    report_url,   \* self.report_url : << >> or << url >>
    report_data,  \* self.report_data: << >> or << body >>
    pc,           \* position of the call in progress: "idle", "resolve", "fetch"
    call,         \* the current (or, when idle, the most recent) public call
    tag_ids,      \* compose_report_url's local tag_ids, as far as it is built
    team_id,      \* compose_report_url's local team_id: << >> until resolved
    reqs,         \* the HTTP requests the current call has issued, in order
    last,         \* how the most recent call ended
    tz            \* the process's local UTC offset in seconds (time.mktime)

vars == <<report_url, report_data, pc, call, tag_ids, team_id, reqs, last, tz>>

----------------------------------------------------------------------------
(* Bounds of the model *)

MaxTags == 2
MaxRows == 2

(* Input domains *)

None == << >>
Some(x) == << x >>

Keys == {"team_name", "start_date", "end_date", "tag_list", "tag_filter_type"}
TeamNames == {"acme"}
TagNames == <<"t1", "t2", "t3", "t4">>
StartDates == { <<2020, 1, 1>> }
EndDates == { <<2020, 3, 2>> }
FilterTypes == {"any"}
TZOffsets == {0 - 18000, 3600}
\* The tag lists: the first n of the tag names, n up to MaxTags.
TagLists == { SubSeq(TagNames, 1, n) : n \in 0..MaxTags }
\* The key sets of the report_params dicts: every key, every key but one,
\* the required keys alone, and no key.
KeySets ==
    {Keys, {}, {"team_name", "start_date", "end_date"}}
    \cup { Keys \ {k} : k \in Keys }

\* A report_params dict: `present` is its key set; a key that is absent
\* holds a fixed filler that nothing reads.
MkParams(K, t, s, e, tl, f) ==
    [present         |-> K,
     team_name       |-> IF "team_name" \in K THEN t ELSE "",
     start_date      |-> IF "start_date" \in K THEN s ELSE <<0, 0, 0>>,
     end_date        |-> IF "end_date" \in K THEN e ELSE <<0, 0, 0>>,
     tag_list        |-> IF "tag_list" \in K THEN tl ELSE << >>,
     tag_filter_type |-> IF "tag_filter_type" \in K THEN f ELSE ""]

ReportParams ==
    { MkParams(K, t, s, e, tl, f) :
        K \in KeySets, t \in TeamNames, s \in StartDates, e \in EndDates,
        tl \in TagLists, f \in FilterTypes }

NoParams == MkParams({}, "", <<0, 0, 0>>, <<0, 0, 0>>, << >>, "")

\* What a lookup endpoint can answer: requests.get raises ("neterr"), the
\* JSON has no "data" key ("nodata"), or "data" is an array of records.
TagData == { << >>, <<"b", "a">> }
TeamData == { << >>, <<"T2", "T1">> }
LookupResponses(D) ==
    { [result |-> "neterr", data |-> << >>], [result |-> "nodata", data |-> << >>] }
    \cup { [result |-> "ok", data |-> d] : d \in D }

----------------------------------------------------------------------------
(* Dates and timestamps *)

\* Days from 1970-01-01 to the civil date y-m-d (proleptic Gregorian).
DaysFromCivil(y, m, d) ==
    LET yy  == IF m <= 2 THEN y - 1 ELSE y
        era == yy \div 400
        yoe == yy - era * 400
        mp  == (m + 9) % 12
        doy == (153 * mp + 2) \div 5 + d - 1
        doe == yoe * 365 + yoe \div 4 - yoe \div 100 + doy
    IN  era * 146097 + doe - 719468

\* to_epoch: strptime('%Y-%m-%d'), mktime (local time), * 1000.  The
\* product exceeds the model checker's integers, so the value is kept as
\* its two factors: it is the number seconds * times.
to_epoch(date, offset) ==
    [seconds |-> DaysFromCivil(date[1], date[2], date[3]) * 86400 - offset,
     times   |-> 1000]

\* pd.to_datetime with '%Y-%m-%d %H:%M:%S +%f UTC': a timestamp text
\* <<y, m, d, h>> (minutes and below are zero in the model) becomes a naive
\* date-time, counted here in hours since 1970-01-01 00:00.
to_datetime(ts) == DaysFromCivil(ts[1], ts[2], ts[3]) * 24 + ts[4]

----------------------------------------------------------------------------
(* Response bodies: a body is the sequence of its lines, a line the sequence *)
(* of its comma-separated fields.  The empty body "" has no line.            *)

Header == <<"startAt", "endAt", "durationHours", "creator">>

\* One CSV data line: a time record of `dur` hours starting at `ts`.
Row(ts, dur, who) == <<ts, <<ts[1], ts[2], ts[3], ts[4] + dur>>, dur, who>>

Alice == <<"a", "l", "@", "x", ".", "i", "o">>
Bob == <<"b", "o", "b">>

EmptyBody == << >>
ErrorBody == << <<"Unauthorized">> >>
CsvOneRow == << Header, Row(<<2020, 1, 6, 10>>, 2, Alice) >>
CsvTwoWeeks ==
    << Header, Row(<<2020, 1, 7, 9>>, 3, Alice), Row(<<2020, 1, 22, 9>>, 1, Bob) >>
Bodies == {EmptyBody, ErrorBody, CsvOneRow, CsvTwoWeeks}

\* What the report endpoint can answer: requests.get raises, or a response
\* with a status and a body.
Statuses == {200, 401}
FetchResponses(B, S) ==
    { [result |-> "neterr", status |-> 0, body |-> EmptyBody] }
    \cup { [result |-> "ok", status |-> s, body |-> b] : s \in S, b \in B }

\* The bodies of the weekly-summary runs: every CSV of up to MaxRows time
\* records that start on Monday 2020-01-06, Tuesday 2020-01-07, Sunday
\* 2020-01-12 or Wednesday 2020-01-22.
WeekStamps == { <<2020, 1, 6, 10>>, <<2020, 1, 7, 0>>, <<2020, 1, 12, 23>>,
                <<2020, 1, 22, 9>> }
WeekRows == { Row(ts, dur, Alice) : ts \in WeekStamps, dur \in {1, 2} }
WeekBodies ==
    UNION { { <<Header>> \o rs : rs \in [1..n -> WeekRows] } : n \in 0..MaxRows }

----------------------------------------------------------------------------
(* How a call ends *)

Pending ==
    [outcome |-> "pending", kind |-> "", err |-> "",
     url |-> None, table |-> None, weekly |-> << >>]
NoCallYet == [Pending EXCEPT !.outcome = "none"]
Raised(e) == [Pending EXCEPT !.outcome = "raised", !.err = e]
ReturnedUrl(u) == [Pending EXCEPT !.outcome = "returned", !.kind = "url", !.url = Some(u)]
ReturnedTable(t) ==
    [Pending EXCEPT !.outcome = "returned", !.kind = "table", !.table = Some(t)]
ReturnedWeekly(w) ==
    [Pending EXCEPT !.outcome = "returned", !.kind = "weekly", !.weekly = w]
\* `return Exception(msg)`: an exception object handed back as a value
ReturnedException(msg) ==
    [Pending EXCEPT !.outcome = "returned", !.kind = "exception", !.err = msg]
ReturnedNone == [Pending EXCEPT !.outcome = "returned", !.kind = "None"]

----------------------------------------------------------------------------
(* format_report *)

HasCol(cols, name) == \E i \in 1..Len(cols) : cols[i] = name
ColIndex(cols, name) == CHOOSE i \in 1..Len(cols) : cols[i] = name

\* pd.read_csv(StringIO(text)): the first line names the columns
read_csv(body) == [cols |-> Head(body), rows |-> Tail(body)]

\* trunc_name = lambda x: x.split('@')[0]
trunc_name(x) ==
    LET at == { i \in 1..Len(x) : x[i] = "@" }
    IN  IF at = {} THEN x
        ELSE SubSeq(x, 1, (CHOOSE i \in at : \A j \in at : i <= j) - 1)

rename_map(c) ==
    CASE c = "startAt"       -> "start_time"
      [] c = "endAt"         -> "end_time"
      [] c = "durationHours" -> "duration_hours"
      [] c = "tagNames"      -> "tags"
      [] c = "teamNames"     -> "teams"
      [] c = "description"   -> "description"
      [] c = "creator"       -> "person"
      [] OTHER               -> c

\* report_df[time_cols].apply(pd.to_datetime, format=tsformat), one column
ParseTimeCol(df, name) ==
    LET k == ColIndex(df.cols, name)
    IN  [df EXCEPT !.rows =
            [i \in 1..Len(df.rows) |->
                [df.rows[i] EXCEPT ![k] = to_datetime(df.rows[i][k])]]]

\* report_df.creator.apply(trunc_name)
TruncCreator(df) ==
    LET k == ColIndex(df.cols, "creator")
    IN  [df EXCEPT !.rows =
            [i \in 1..Len(df.rows) |->
                [df.rows[i] EXCEPT ![k] = trunc_name(df.rows[i][k])]]]

\* report_data is falsy: None or the empty string
NotYetRun(data) == data = None \/ Len(data[1]) = 0

format_report(data, pythonic_colnames, short_usernames) ==
    IF NotYetRun(data) THEN Raised("Report has not yet been run.")
    ELSE
    LET df0 == read_csv(data[1])
    IN  IF ~(HasCol(df0.cols, "startAt") /\ HasCol(df0.cols, "endAt"))
        THEN Raised("KeyError")
        ELSE
        LET df1 == ParseTimeCol(ParseTimeCol(df0, "startAt"), "endAt")
        IN  IF short_usernames /\ ~HasCol(df1.cols, "creator")
            THEN Raised("AttributeError")
            ELSE
            LET df2 == IF short_usernames THEN TruncCreator(df1)
                       ELSE df1
                df3 == IF pythonic_colnames
                       THEN [df2 EXCEPT !.cols = [i \in 1..Len(df2.cols) |->
                                                    rename_map(df2.cols[i])]]
                       ELSE df2
            IN  ReturnedTable(df3)

\* (a format_report that uses up the raw text it formats)
DataAfterFormat_Consumed(data) == None

\* format_report only reads self.report_data: the field after the call
DataAfterFormat(data) == data

----------------------------------------------------------------------------
(* summary_by_week *)

\* Day of the week of a day number, Monday = 0 (1970-01-01 was a Thursday).
Weekday(day) == (day + 3) % 7

\* (weekly bins labelled by the Monday that starts them)
WeekLabel_WeekStart(t) ==
    LET day == t \div 24
    IN  day - Weekday(day)

\* resample('W-MON'): weekly bins closed and labelled on the right, so a
\* time falls in the bin labelled by the first Monday on or after its date.
WeekLabel(t) ==
    LET day == t \div 24
    IN  day + ((7 - Weekday(day)) % 7)

RECURSIVE SumHours(_, _, _, _)
SumHours(rows, st, du, label) ==
    IF rows = << >> THEN 0
    ELSE (IF WeekLabel(Head(rows)[st]) = label THEN Head(rows)[du] ELSE 0)
         + SumHours(Tail(rows), st, du, label)

\* raw_df.set_index('start_time').resample('W-MON').sum(): one row per
\* weekly bin from the earliest row's bin to the latest row's bin.
resample_sum(df) ==
    LET st     == ColIndex(df.cols, "start_time")
        du     == ColIndex(df.cols, "duration_hours")
        labels == { WeekLabel(df.rows[i][st]) : i \in 1..Len(df.rows) }
        first  == CHOOSE a \in labels : \A b \in labels : a <= b
        final  == CHOOSE a \in labels : \A b \in labels : a >= b
    IN  IF df.rows = << >> THEN << >>
        ELSE [k \in 1..((final - first) \div 7 + 1) |->
                [week_starting_date |-> first + 7 * (k - 1),
                 duration_hours     |-> SumHours(df.rows, st, du, first + 7 * (k - 1))]]

\* What summary_by_week makes of what run handed back.
summary_of(r) ==
    IF r.outcome = "raised" THEN r
    ELSE IF r.kind # "table" THEN Raised("AttributeError")
    ELSE IF ~HasCol(r.table[1].cols, "start_time") THEN Raised("KeyError")
    ELSE ReturnedWeekly(resample_sum(r.table[1]))

----------------------------------------------------------------------------
(* compose_report_url and the lookups *)

\* report_params.get('tag_list', [])
TagListOf(p) == IF "tag_list" \in p.present THEN p.tag_list ELSE << >>

\* (end_date not read before the lookups)
MissingKey_EndDateUnread(p) ==
    IF "team_name" \notin p.present THEN "team_name"
    ELSE IF "start_date" \notin p.present THEN "start_date"
    ELSE ""

\* report_params['team_name'], ['start_date'], ['end_date'], read in this
\* order before anything else: the first key that is missing, "" if none.
MissingKey(p) ==
    IF "team_name" \notin p.present THEN "team_name"
    ELSE IF "start_date" \notin p.present THEN "start_date"
    ELSE IF "end_date" \notin p.present THEN "end_date"
    ELSE ""

\* (the id of the last record instead of the first)
id_from_data_last(data) == IF data = << >> THEN "" ELSE data[Len(data)]

\* data[0]["id"] if data else ""
id_from_data(data) == IF data = << >> THEN "" ELSE data[1]

\* (the team resolved before the tags)
NextLookup_TeamFirst(tags, ids, team) ==
    IF team = None THEN "team"
    ELSE IF Len(ids) < Len(tags) THEN "tag"
    ELSE "done"

\* The lookup compose_report_url makes next: the tag names of tag_list in
\* order (list(map(...))), and after them the team name.
NextLookup(tags, ids, team) ==
    IF Len(ids) < Len(tags) THEN "tag"
    ELSE IF team = None THEN "team"
    ELSE "done"

\* ",".join(tag_ids), as the text's pieces: the ids that are not empty
\* strings, with a "," between every two ids.
RECURSIVE JoinComma(_)
JoinComma(ids) ==
    IF ids = << >> THEN << >>
    ELSE (IF Head(ids) = "" THEN << >> ELSE <<Head(ids)>>)
         \o (IF Len(ids) > 1 THEN <<",">> ELSE << >>)
         \o JoinComma(Tail(ids))

\* The report URL, as the values the template's slots are filled with.
ComposeUrl(p, team, ids, offset) ==
    [teamId        |-> team,
     startsBy      |-> to_epoch(p.start_date, offset),
     endsBy        |-> to_epoch(p.end_date, offset),
     tagIds        |-> JoinComma(ids),
     tagFilterType |-> p.tag_filter_type]

\* "".join([...]) raises TypeError on an item that is None: a
\* tag_filter_type that report_params.get(..., None) did not find.
JoinFails(p) == "tag_filter_type" \notin p.present

LookupError(resp) == IF resp.result = "neterr" THEN "ConnectionError" ELSE "KeyError"

Request(kind, name, resp, status) ==
    [kind |-> kind, name |-> name, result |-> resp.result, data |-> resp.data,
     status |-> status]

\* A call begins: a fresh request log and fresh locals.
Begin(op, given, p, flags, again) ==
    /\ pc = "idle"
    /\ call' = [op |-> op, given |-> given, params |-> p, flags |-> flags,
                again |-> again]
    /\ reqs' = << >>
    /\ tag_ids' = << >>
    /\ team_id' = None
    /\ tz' = tz

\* compose_report_url up to its first lookup.
EnterCompose(p) ==
    IF MissingKey(p) # ""
    THEN /\ pc' = "idle"
         /\ last' = Raised("KeyError")
    ELSE /\ pc' = "resolve"
         /\ last' = Pending

CallComposeReportUrl(p) ==
    /\ Begin("compose_report_url", TRUE, p, << >>, FALSE)
    /\ EnterCompose(p)
    /\ UNCHANGED <<report_url, report_data>>

\* run, and summary_by_week (which starts with run), up to the first request.
\* po is report_params: None or a dict.
EnterRun(op, po) ==
    /\ Begin(op, po # None, IF po = None THEN NoParams ELSE po[1], << >>, FALSE)
    /\ IF po # None THEN EnterCompose(po[1])
       ELSE IF report_url = None
       THEN /\ pc' = "idle"
            /\ last' = IF op = "run" THEN ReturnedException("Report not defined.")
                       ELSE summary_of(ReturnedException("Report not defined."))
       ELSE /\ pc' = "fetch"
            /\ last' = Pending
    /\ UNCHANGED <<report_url, report_data>>

CallRun(po) == EnterRun("run", po)

CallSummaryByWeek(po) == EnterRun("summary_by_week", po)

\* _tagid_from_name for the next tag name
ResolveTag ==
    /\ pc = "resolve"
    /\ NextLookup(TagListOf(call.params), tag_ids, team_id) = "tag"
    /\ \E resp \in LookupResponses(TagData) :
         /\ reqs' = Append(reqs,
                Request("tag", TagListOf(call.params)[Len(tag_ids) + 1], resp, 0))
         /\ IF resp.result = "ok"
            THEN /\ tag_ids' = Append(tag_ids, id_from_data(resp.data))
                 /\ UNCHANGED <<pc, last>>
            ELSE /\ pc' = "idle"
                 /\ last' = Raised(LookupError(resp))
                 /\ UNCHANGED tag_ids
    /\ UNCHANGED <<report_url, report_data, call, team_id, tz>>

\* _teamid_from_name, then the rest of compose_report_url
ResolveTeam ==
    /\ pc = "resolve"
    /\ NextLookup(TagListOf(call.params), tag_ids, team_id) = "team"
    /\ \E resp \in LookupResponses(TeamData) :
         /\ reqs' = Append(reqs, Request("team", call.params.team_name, resp, 0))
         /\ IF resp.result # "ok"
            THEN /\ pc' = "idle"
                 /\ last' = Raised(LookupError(resp))
                 /\ UNCHANGED <<team_id, report_url>>
            ELSE /\ team_id' = Some(id_from_data(resp.data))
                 /\ IF JoinFails(call.params)
                    THEN /\ pc' = "idle"
                         /\ last' = Raised("TypeError")
                         /\ UNCHANGED report_url
                    ELSE LET url == ComposeUrl(call.params, id_from_data(resp.data),
                                               tag_ids, tz)
                         IN  /\ report_url' = Some(url)
                             /\ IF call.op = "compose_report_url"
                                THEN /\ pc' = "idle"
                                     /\ last' = ReturnedUrl(url)
                                ELSE /\ pc' = "fetch"
                                     /\ UNCHANGED last
    /\ UNCHANGED <<report_data, call, tag_ids, tz>>

----------------------------------------------------------------------------
(* run's report fetch, format_report, last_report_date *)

\* requests.get(self.report_url), self.report_data = response.text,
\* self.format_report(), and for summary_by_week the resampling.
FetchReport(B, S) ==
    /\ pc = "fetch"
    /\ \E r \in FetchResponses(B, S) :
         /\ reqs' = Append(reqs,
                Request("report", "", [result |-> r.result, data |-> << >>], r.status))
         /\ pc' = "idle"
         /\ IF r.result = "neterr"
            THEN /\ last' = Raised("ConnectionError")
                 /\ UNCHANGED report_data
            ELSE /\ report_data' = Some(r.body)
                 /\ last' = IF call.op = "run" THEN format_report(Some(r.body), TRUE, TRUE)
                            ELSE summary_of(format_report(Some(r.body), TRUE, TRUE))
    /\ UNCHANGED <<report_url, call, tag_ids, team_id, tz>>

CallFormatReport(pythonic_colnames, short_usernames) ==
    /\ Begin("format_report", FALSE, NoParams, <<pythonic_colnames, short_usernames>>,
             /\ call.op = "format_report"
             /\ call.flags = <<pythonic_colnames, short_usernames>>)
    /\ pc' = "idle"
    /\ last' = format_report(report_data, pythonic_colnames, short_usernames)
    /\ report_data' = DataAfterFormat(report_data)
    /\ UNCHANGED report_url

\* last_report_date: `pass`
CallLastReportDate(po) ==
    /\ Begin("last_report_date", po # None, IF po = None THEN NoParams ELSE po[1],
             << >>, FALSE)
    /\ pc' = "idle"
    /\ last' = ReturnedNone
    /\ UNCHANGED <<report_url, report_data>>

----------------------------------------------------------------------------
(* The client *)

\* __init__
Init ==
    /\ report_url = None
    /\ report_data = None
    /\ pc = "idle"
    /\ call = [op |-> "__init__", given |-> FALSE, params |-> NoParams,
               flags |-> << >>, again |-> FALSE]
    /\ tag_ids = << >>
    /\ team_id = None
    /\ reqs = << >>
    /\ last = NoCallYet
    /\ tz \in TZOffsets

ParamsOpt == {None} \cup { Some(p) : p \in ReportParams }

Next ==
    \/ \E p \in ReportParams : CallComposeReportUrl(p)
    \/ \E po \in ParamsOpt : CallRun(po)
    \/ ResolveTag
    \/ ResolveTeam
    \/ FetchReport(Bodies, Statuses)
    \/ \E py \in BOOLEAN, sh \in BOOLEAN : CallFormatReport(py, sh)
    \/ \E po \in ParamsOpt : CallLastReportDate(po)

Spec == Init /\ [][Next]_vars

\* The weekly summary on its own: summary_by_week on a client whose report
\* endpoint answers with any of WeekBodies.
WeekParams ==
    MkParams(Keys \ {"tag_list"}, "acme", <<2020, 1, 1>>, <<2020, 3, 2>>, << >>, "any")

WeekInit == Init /\ tz = 3600

WeekNext ==
    \/ \E po \in {None, Some(WeekParams)} : CallSummaryByWeek(po)
    \/ ResolveTeam
    \/ FetchReport(WeekBodies, {200})

WeekSpec == WeekInit /\ [][WeekNext]_vars

----------------------------------------------------------------------------
(* Helpers of the properties *)

Required == {"team_name", "start_date", "end_date"}

LastReq == reqs[Len(reqs)]

\* The most recent call has ended and was a call of `op`.
Ended(op) == pc = "idle" /\ call.op = op

\* The call ended in an error that is signalled to the caller.
Failed == last.outcome = "raised"

----------------------------------------------------------------------------
(* C1 *)

\* C1: run without report parameters on a client whose report_url is unset
\* fails with an error that is raised to the caller, and has issued no HTTP
\* request.
C1_RunUndefinedRaises ==
    (Ended("run") /\ ~call.given /\ report_url = None)
        => (Failed /\ reqs = << >>)

----------------------------------------------------------------------------
(* C2 *)

\* C2: when run's report fetch is answered with a non-success status, run
\* ends in a fetch failure: an error raised for the fetch itself, and no
\* table handed back.
C2_BadStatusIsFetchFailure ==
    (Ended("run") /\ reqs # << >> /\ LastReq.kind = "report"
        /\ LastReq.result = "ok" /\ LastReq.status # 200)
        => (Failed /\ last.err = "UpstreamError" /\ last.table = None)

----------------------------------------------------------------------------
(* C3 *)

\* C3: compose_report_url on params that hold team_name, start_date and
\* end_date, with no tag and a team name the lookup resolves, returns a URL
\* with the team's id, the epoch-milliseconds of the two dates and an empty
\* tagIds segment, and that URL is the client's report_url.
C3_ComposeWithoutTags ==
    (Ended("compose_report_url") /\ Required \subseteq call.params.present
        /\ TagListOf(call.params) = << >>
        /\ reqs # << >> /\ LastReq.kind = "team" /\ LastReq.result = "ok"
        /\ LastReq.data # << >>)
        => /\ last.outcome = "returned"
           /\ last.kind = "url"
           /\ report_url = last.url
           /\ last.url[1].teamId = LastReq.data[1]
           /\ last.url[1].startsBy = to_epoch(call.params.start_date, tz)
           /\ last.url[1].endsBy = to_epoch(call.params.end_date, tz)
           /\ last.url[1].tagIds = << >>

----------------------------------------------------------------------------
(* C4 *)

\* The requests of the call so far are the first of the sequence `order`
\* of <<kind, name>>, and only the last of them may have failed.
FollowsOrder(order) ==
    /\ Len(reqs) <= Len(order)
    /\ \A i \in 1..Len(reqs) :
         /\ <<reqs[i].kind, reqs[i].name>> = order[i]
         /\ i < Len(reqs) => reqs[i].result = "ok"

TagRequests(tl) == [i \in 1..Len(tl) |-> <<"tag", tl[i]>>]

\* C4 as the spec has it: in a run(report_params) the team lookup comes
\* first, then one tag lookup per name of tag_list in order, then the
\* report fetch.
C4_TeamThenTagsThenFetch ==
    (call.op = "run" /\ call.given)
        => FollowsOrder(<< <<"team", call.params.team_name>> >>
                        \o TagRequests(TagListOf(call.params))
                        \o << <<"report", "">> >>)

\* C4, amended: in a run(report_params) the tag lookups come first, one per
\* name of tag_list in order, then the team lookup, then the single report
\* fetch, each request issued only after the one before it has succeeded.
C4_TagsThenTeamThenFetch ==
    (call.op = "run" /\ call.given)
        => FollowsOrder(TagRequests(TagListOf(call.params))
                        \o << <<"team", call.params.team_name>> >>
                        \o << <<"report", "">> >>)

\* A run with two tags that got as far as its report fetch.
C4_Witness ==
    /\ Ended("run") /\ call.given
    /\ Len(TagListOf(call.params)) = 2
    /\ Len(reqs) = 4
    /\ LastReq.kind = "report"

----------------------------------------------------------------------------
(* C5 *)

\* C5: a compose_report_url or run call whose report_params lack a required
\* key ends at once in a raised error: no HTTP request is issued, and
\* report_url and report_data are what they were before the call.
C5_MissingKeyFailsEarly ==
    [][ (pc = "idle" /\ call'.op \in {"compose_report_url", "run"}
            /\ call'.given /\ ~(Required \subseteq call'.params.present))
        => (pc' = "idle" /\ last'.outcome = "raised" /\ reqs' = << >>
            /\ report_url' = report_url /\ report_data' = report_data) ]_vars

\* A run that failed on a missing key, on a client that holds a URL and data.
C5_Witness ==
    /\ Ended("run") /\ call.given
    /\ ~(Required \subseteq call.params.present)
    /\ Failed /\ last.err = "KeyError"
    /\ report_url # None /\ report_data # None

----------------------------------------------------------------------------
(* C6 *)

\* C6: the tag ids compose_report_url joins follow tag_list: as many, in
\* the same order, the i-th being the id of the first record the lookup of
\* the i-th name returned, or "" when it returned no record; a lookup that
\* returned no record neither raises nor is dropped.
C6_TagIdsFollowTagList ==
    (call.given /\ call.op \in {"compose_report_url", "run"})
        => LET tl == TagListOf(call.params)
           IN  /\ Len(tag_ids) <= Len(tl)
               /\ \A i \in 1..Len(tag_ids) :
                    /\ reqs[i].kind = "tag"
                    /\ reqs[i].name = tl[i]
                    /\ reqs[i].result = "ok"
                    /\ tag_ids[i] = IF Len(reqs[i].data) = 0 THEN ""
                                    ELSE reqs[i].data[1]
               /\ team_id # None => Len(tag_ids) = Len(tl)
               /\ (pc = "idle" /\ Failed /\ reqs # << >> /\ LastReq.kind = "tag")
                    => LastReq.result # "ok"

\* A composed URL of two tags, the first without a match.
C6_Witness ==
    /\ Ended("compose_report_url")
    /\ last.outcome = "returned"
    /\ tag_ids = <<"", "b">>
    /\ last.url[1].tagIds = <<",", "b">>

----------------------------------------------------------------------------
(* C7 *)

\* C7: format_report (called directly or by run) fails with "Report has
\* not yet been run." only while no run has stored a response body.
C7_NotYetRunOnlyBeforeRun ==
    (pc = "idle" /\ call.op \in {"run", "format_report"}
        /\ Failed /\ last.err = "Report has not yet been run.")
        => report_data = None

----------------------------------------------------------------------------
(* C8 *)

\* The data lines of the body the last fetch stored, and the day (counted
\* from 1970-01-01) that a line's startAt falls on.
BodyRows == Tail(report_data[1])
RowDay(r) == DaysFromCivil(r[1][1], r[1][2], r[1][3])

\* The Monday that closes the week of day d: the Monday among d .. d+6
\* (2020-01-06 was a Monday).
Anchor(d) == CHOOSE a \in d..(d + 6) : (a - DaysFromCivil(2020, 1, 6)) % 7 = 0

Buckets == { Anchor(RowDay(BodyRows[i])) : i \in 1..Len(BodyRows) }

RECURSIVE HoursIn(_, _)
HoursIn(rows, a) ==
    IF rows = << >> THEN 0
    ELSE (IF Anchor(RowDay(Head(rows))) = a THEN Head(rows)[3] ELSE 0)
         + HoursIn(Tail(rows), a)

\* summary_by_week has fetched a report whose rows fall into exactly two
\* weekly buckets.
TwoBuckets ==
    /\ Ended("summary_by_week")
    /\ reqs # << >> /\ LastReq.kind = "report" /\ LastReq.result = "ok"
    /\ Cardinality(Buckets) = 2

EarlierBucket == CHOOSE a \in Buckets : \A b \in Buckets : a <= b
LaterBucket == CHOOSE a \in Buckets : \A b \in Buckets : a >= b

----------------------------------------------------------------------------
(* C9 *)

\* C9: last_report_date ends in a raised not-implemented error, never in a
\* normal return.
C9_LastReportDateRaises ==
    Ended("last_report_date") => (Failed /\ last.err = "NotImplementedError")

----------------------------------------------------------------------------
(* C10 *)

\* C10: a format_report call leaves report_url and report_data as they
\* were, and when the call before it was a format_report with the same
\* flags, it ends as that one did: the same table, or the same error.
C10_FormatIdempotentReadOnly ==
    [][ (pc = "idle" /\ pc' = "idle" /\ call'.op = "format_report")
        => /\ report_url' = report_url
           /\ report_data' = report_data
           /\ call'.again => last' = last ]_vars

\* A second format_report in a row, with the same flags, that returned a
\* table with rows.
C10_Witness ==
    /\ Ended("format_report") /\ call.again
    /\ last.outcome = "returned"
    /\ last.table # None
    /\ Len(last.table[1].rows) > 0

====
